---- MODULE Spec2Model ----
(***************************************************************************)
(* The resilience decorators of stability_patterns.go: Breaker, Debounce   *)
(* and Retry.  Each decorator is a closure over private state; the three   *)
(* share nothing, so each has a specification of its own over its own      *)
(* variables (BreakerSpec, BurstSpec, DebounceSpec, RetrySpec).            *)
(*                                                                         *)
(* Funnel of the fan-in pattern (FunnelSpec) is a set of goroutines over    *)
(* unbuffered channels, and so is runFanOut with Split of the fan-out       *)
(* pattern (FanOutSpec).                                                   *)
(*                                                                         *)
(* Time is a clock of whole seconds, `now`.  Durations the code computes   *)
(* in int64 nanoseconds are computed here on 64-bit words (four 16-bit     *)
(* limbs), so that the shift of the backoff wraps as the code's does.      *)
(***************************************************************************)
EXTENDS Integers, Sequences, FiniteSets, TLC

VARIABLES
    now,                  \* time.Now(), in whole seconds
    \* ---- Breaker (one instance) ----
    failureThreshold,     \* the failureThreshold argument
    consecutiveFailures,  \* var consecutiveFailures int
    lastAttempt,          \* var lastAttempt time.Time
    inFlight,             \* calls past the gate whose bookkeeping has not run yet
    streak,               \* history: failed completions since the last successful one
    fresh,                \* history: calls in flight that passed the gate after the
                          \* latest bookkeeping
    failedEver,           \* history: some invocation through this instance has failed
    ev,                   \* history: what the last step did, what the call returned,
                          \* what consecutiveFailures was before a completion, whether
                          \* the completed call had passed the gate before the latest
                          \* bookkeeping (stale) and completed while the gate was
                          \* rejecting (early)
    \* ---- Debounce (one instance) ----
    duration,             \* the duration argument
    threshold,            \* var threshold time.Time
    result,               \* var result string
    err,                  \* var err error
    m,                    \* var m sync.Mutex: 0 when free, else the caller holding it
    dpc,                  \* each caller's position in the returned closure
    dret,                 \* each caller's (result, error) as evaluated by its return
    lastOutcome,          \* history: what the last wrapped invocation returned
    lastDone,             \* history: when the last call completed (-1: none yet)
    invDone,              \* history: when the last invoking call completed (-1: none)
    invStart,             \* history: when the last wrapped invocation began (-1: none)
    \* ---- Retry (one call at a time) ----
    retries,              \* the retries argument
    delay,                \* the delay argument
    fails,                \* the effector fails on its first `fails` invocations
    rpc,                  \* position of the call: idle, attempting, waiting, done
    r,                    \* the loop variable r
    timer,                \* seconds left on time.After(delay)
    cancelled,            \* ctx.Done() is closed
    attempts,             \* history: invocations of the effector in this call
    rresp,                \* resp of the latest attempt
    rerr,                 \* err of the latest attempt
    rret,                 \* what the call returned
    cancelledInWait,      \* history: ctx was cancelled while the call was waiting
    attemptsAtCancel,     \* history: attempts when that happened
    \* ---- Funnel (one call, its goroutines, its sources' senders, its reader) ----
    nsources,             \* len(sources)
    srcSent,              \* per source: values its sender has sent on it so far
    srcClosed,            \* per source: the sender has closed it
    fwdPc,                \* per source: its goroutine is at "recv" (range c),
                          \* "send" (dest <- n), "done" or "panicked"
    fwdN,                 \* per source: the goroutine's n
    wg,                   \* the WaitGroup counter
    closerPc,             \* the closing goroutine: "wait" (wg.Wait()) or "done"
    destClosed,           \* how many times close(dest) has run
    received,             \* the values the reader of dest has received, in order
    readerPc,             \* the reader of dest: "recv" (range dest) or "done"
    \* ---- runFanOut (one run) ----
    mainPc,               \* runFanOut: "start" (before wg.Add), "wait" (wg.Wait()),
                          \* "returned"
    outWg,                \* runFanOut's WaitGroup counter
    produced,             \* the producer's i: values sent on source so far
    sourceClosed,         \* close(source) has run
    splitPc,              \* per destination: Split's goroutine is at "recv" (range
                          \* source), "send" (ch <- val) or "closed" (close(ch) ran)
    splitVal,             \* per destination: the goroutine's val (0 between iterations)
    outPc,                \* per destination: runFanOut's reader is "unborn", at
                          \* "recv" (range d) or "done"
    got                   \* per value: how many times a reader has received it

bvars == <<failureThreshold, consecutiveFailures, lastAttempt, inFlight, streak, fresh,
           failedEver, ev>>
dvars == <<duration, threshold, result, err, m, dpc, dret, lastOutcome, lastDone, invDone,
           invStart>>
rvars == <<retries, delay, fails, rpc, r, timer, cancelled, attempts, rresp, rerr, rret,
           cancelledInWait, attemptsAtCancel>>
fvars == <<nsources, srcSent, srcClosed, fwdPc, fwdN, wg, closerPc, destClosed, received,
           readerPc>>
ovars == <<mainPc, outWg, produced, sourceClosed, splitPc, splitVal, outPc, got>>
vars == <<now, bvars, dvars, rvars, fvars, ovars>>

\* ---------------------------------------------------------------- bounds
MaxTime == 13
MaxThreshold == 2
MaxInFlight == 2
MaxFailures == 8
BurstTime == 1
BurstInFlight == 35
BurstFailures == 36
NumCallers == 2
MaxDuration == 2
DebounceTime == 5
MaxRetries == 3
MaxFails == 4
MaxDelay == 2
MaxSources == 2
MaxValues == 2

\* ------------------------------------------------ values of the program
\* runFanOut's literals: the producer's loop bound and Split's n.
NumValues == 10
NumDests == 5
Nil == "nil"
Unreachable == "service unreachable"
\* What a wrapped operation can return: (response, err).
CircuitOutcomes ==
    { [resp |-> "pong", err |-> Nil],
      [resp |-> "", err |-> "down"],
      [resp |-> "partial", err |-> "down"] }

\* ------------------------------------------------ int64 arithmetic
\* A 64-bit word is <<l1, l2, l3, l4>>, least significant 16-bit limb first.
Limb == 2 ^ 16
SecondNs == 1000000000

Word(n) == <<n % Limb, (n \div Limb) % Limb, 0, 0>>

\* w * k in 64 bits, for 0 <= k <= 2^15: the carry out of the top limb is lost.
MulSmall(w, k) ==
    LET a == k * w[1]
        b == k * w[2] + (a \div Limb)
        c == k * w[3] + (b \div Limb)
        e == k * w[4] + (c \div Limb)
    IN  <<a % Limb, b % Limb, c % Limb, e % Limb>>

\* w << n in 64 bits, n >= 0: whole limbs first, then the remaining bits.  As in
\* Go, the bits shifted out are lost and a count of 64 or more leaves 0.
Shl(w, n) ==
    IF n >= 64 THEN <<0, 0, 0, 0>>
    ELSE LET q == n \div 16
             moved == [i \in 1..4 |-> IF i - q >= 1 THEN w[i - q] ELSE 0]
         IN  MulSmall(moved, 2 ^ (n % 16))

\* The sign bit of an int64.
IsNeg(w) == w[4] >= Limb \div 2

\* a < b for two non-negative int64.
Less(a, b) ==
    \/ a[4] < b[4]
    \/ a[4] = b[4] /\ a[3] < b[3]
    \/ a[4] = b[4] /\ a[3] = b[3] /\ a[2] < b[2]
    \/ a[4] = b[4] /\ a[3] = b[3] /\ a[2] = b[2] /\ a[1] < b[1]

\* t.After(u.Add(dur)) for t >= u: t - u, in nanoseconds, exceeds dur.
After(t, u, dur) == IsNeg(dur) \/ Less(dur, MulSmall(Word(SecondNs), t - u))

\* ------------------------------------------------ Breaker
\* time.Second * 2 << d
BackoffNoShift(d) == Word(2 * SecondNs)
Backoff(d) == Shl(Word(2 * SecondNs), d)

\* The gate: d >= 0 and !time.Now().After(lastAttempt.Add(backoff)).
RejectsAboveThreshold(cf, last, t) ==
    LET d == cf - failureThreshold
    IN  d > 0 /\ ~After(t, last, Backoff(d))
Rejects(cf, last, t) ==
    LET d == cf - failureThreshold
    IN  d >= 0 /\ ~After(t, last, Backoff(d))

\* The bookkeeping of a completed invocation on consecutiveFailures.
CountNoReset(cf, e) == cf + 1
Count(cf, e) == IF e # Nil THEN cf + 1 ELSE 0

\* The history record of a step that is not a completion.
Event(kind, resp, e) ==
    [kind |-> kind, resp |-> resp, err |-> e, was |-> 0, stale |-> FALSE, early |-> FALSE]

BreakerInit ==
    /\ failureThreshold \in 0..MaxThreshold
    /\ consecutiveFailures = 0
    /\ lastAttempt = now
    /\ inFlight = 0
    /\ streak = 0
    /\ fresh = 0
    /\ failedEver = FALSE
    /\ ev = Event("new", "", Nil)

\* BCall with a rejected call stamping lastAttempt.
BCallStampsRejected(maxFlight, maxFail) ==
    /\ IF Rejects(consecutiveFailures, lastAttempt, now)
       THEN /\ ev' = Event("rejected", "", Unreachable)
            /\ lastAttempt' = now
            /\ UNCHANGED <<inFlight, fresh>>
       ELSE /\ inFlight < maxFlight
            /\ consecutiveFailures + inFlight < maxFail
            /\ inFlight' = inFlight + 1
            /\ fresh' = fresh + 1
            /\ ev' = Event("invoked", "", Nil)
            /\ UNCHANGED lastAttempt
    /\ UNCHANGED <<now, failureThreshold, consecutiveFailures, streak, failedEver>>
    /\ UNCHANGED <<dvars, rvars, fvars, ovars>>

\* A call arrives and runs the gate under the read lock; it is rejected, or it
\* goes on to invoke the wrapped operation.  The gate only reads, and no writer
\* runs while a reader holds the lock, so it is one step.  maxFlight and maxFail
\* bound the calls in flight and the failures they can add up to.
BCall(maxFlight, maxFail) ==
    /\ IF Rejects(consecutiveFailures, lastAttempt, now)
       THEN /\ ev' = Event("rejected", "", Unreachable)
            /\ UNCHANGED <<inFlight, fresh>>
       ELSE /\ inFlight < maxFlight
            /\ consecutiveFailures + inFlight < maxFail
            /\ inFlight' = inFlight + 1
            /\ fresh' = fresh + 1
            /\ ev' = Event("invoked", "", Nil)
    /\ UNCHANGED <<now, failureThreshold, consecutiveFailures, lastAttempt, streak,
                   failedEver>>
    /\ UNCHANGED <<dvars, rvars, fvars, ovars>>

\* The wrapped operation of one call in flight returns o; the call takes the
\* write lock, does the bookkeeping and returns.  The operation is opaque and
\* takes any time, so its return and the locked section are one step.  The call
\* is one that passed the gate after the latest bookkeeping, or one that had
\* passed it before (stale); after this bookkeeping every call still in flight
\* is of the second kind.
BComplete ==
    /\ inFlight > 0
    /\ \E o \in CircuitOutcomes, old \in BOOLEAN :
        /\ IF old THEN inFlight > fresh ELSE fresh > 0
        /\ lastAttempt' = now
        /\ consecutiveFailures' = Count(consecutiveFailures, o.err)
        /\ streak' = IF o.err # Nil THEN streak + 1 ELSE 0
        /\ failedEver' = (failedEver \/ o.err # Nil)
        /\ ev' = [kind |-> "returned", resp |-> o.resp, err |-> o.err,
                  was |-> consecutiveFailures, stale |-> old,
                  early |-> Rejects(consecutiveFailures, lastAttempt, now)]
    /\ inFlight' = inFlight - 1
    /\ fresh' = 0
    /\ UNCHANGED <<now, failureThreshold>>
    /\ UNCHANGED <<dvars, rvars, fvars, ovars>>

BTick(maxTime) ==
    /\ now < maxTime
    /\ now' = now + 1
    /\ ev' = Event("tick", "", Nil)
    /\ UNCHANGED <<failureThreshold, consecutiveFailures, lastAttempt, inFlight, streak,
                   fresh, failedEver>>
    /\ UNCHANGED <<dvars, rvars, fvars, ovars>>

\* The Breaker before it is constructed (in the other specifications).
BreakerIdle ==
    /\ failureThreshold = 0 /\ consecutiveFailures = 0 /\ lastAttempt = 0
    /\ inFlight = 0 /\ streak = 0 /\ fresh = 0 /\ failedEver = FALSE
    /\ ev = Event("new", "", Nil)

\* ------------------------------------------------ Debounce
DCallers == 1..NumCallers

\* The zero values of result and err, and of a call that has not returned.
NoReturn == [result |-> "", err |-> Nil]

\* return result, err (the call is before threshold)
HitReturnNilErr == [result |-> result, err |-> Nil]
HitReturn == [result |-> result, err |-> err]

\* return result, nil (after result, err = circuit(ctx) has stored o)
MissReturn(o) == [result |-> o.resp, err |-> Nil]

\* time.Now().Before(threshold)
BeforeThreshold(t) == t < threshold

\* The deferred function's threshold, for a call that replayed ("hit") or
\* invoked ("miss"): time.Now().Add(duration), whichever path returned.
NewThresholdFromStart(path) == IF path = "miss" THEN invStart + duration ELSE now + duration
NewThresholdOnMiss(path) == IF path = "miss" THEN now + duration ELSE threshold
NewThreshold(path) == now + duration

DebounceInit ==
    /\ duration \in 1..MaxDuration
    /\ threshold = 0
    /\ result = ""
    /\ err = Nil
    /\ m = 0
    /\ dpc = [c \in DCallers |-> "idle"]
    /\ dret = [c \in DCallers |-> NoReturn]
    /\ lastOutcome = [resp |-> "", err |-> Nil]
    /\ lastDone = -1
    /\ invDone = -1
    /\ invStart = -1

DebounceIdle ==
    /\ duration = 0 /\ threshold = 0 /\ result = "" /\ err = Nil /\ m = 0
    /\ dpc = <<>> /\ dret = <<>> /\ lastOutcome = [resp |-> "", err |-> Nil]
    /\ lastDone = -1 /\ invDone = -1 /\ invStart = -1

\* Caller c calls the debounced function and blocks on m.Lock().
DCall(c) ==
    /\ dpc[c] = "idle"
    /\ dpc' = [dpc EXCEPT ![c] = "waiting"]
    /\ UNCHANGED <<now, duration, threshold, result, err, m, dret, lastOutcome,
                   lastDone, invDone, invStart>>
    /\ UNCHANGED <<bvars, rvars, fvars, ovars>>

\* m.Lock() returns to caller c: the mutex was free and is now held by c.
DLockNoWait(c) ==
    /\ dpc[c] = "waiting"
    /\ m' = c
    /\ dpc' = [dpc EXCEPT ![c] = "locked"]
    /\ UNCHANGED <<now, duration, threshold, result, err, dret, lastOutcome,
                   lastDone, invDone, invStart>>
    /\ UNCHANGED <<bvars, rvars, fvars, ovars>>

DLock(c) ==
    /\ dpc[c] = "waiting"
    /\ m = 0
    /\ m' = c
    /\ dpc' = [dpc EXCEPT ![c] = "locked"]
    /\ UNCHANGED <<now, duration, threshold, result, err, dret, lastOutcome,
                   lastDone, invDone, invStart>>
    /\ UNCHANGED <<bvars, rvars, fvars, ovars>>

\* Caller c compares time.Now() with threshold: it returns the cached pair, or
\* goes on to invoke the wrapped operation.
DCheck(c) ==
    /\ dpc[c] = "locked"
    /\ IF BeforeThreshold(now)
       THEN /\ dpc' = [dpc EXCEPT ![c] = "hit"]
            /\ dret' = [dret EXCEPT ![c] = HitReturn]
            /\ UNCHANGED invStart
       ELSE /\ dpc' = [dpc EXCEPT ![c] = "invoking"]
            /\ invStart' = now
            /\ UNCHANGED dret
    /\ UNCHANGED <<now, duration, threshold, result, err, m, lastOutcome,
                   lastDone, invDone>>
    /\ UNCHANGED <<bvars, rvars, fvars, ovars>>

\* The wrapped operation returns o to caller c, which stores it and returns.
DCircuitReturn(c) ==
    /\ dpc[c] = "invoking"
    /\ \E o \in CircuitOutcomes :
        /\ result' = o.resp
        /\ err' = o.err
        /\ lastOutcome' = o
        /\ dret' = [dret EXCEPT ![c] = MissReturn(o)]
    /\ dpc' = [dpc EXCEPT ![c] = "miss"]
    /\ UNCHANGED <<now, duration, threshold, m, lastDone, invDone, invStart>>
    /\ UNCHANGED <<bvars, rvars, fvars, ovars>>

\* The deferred function of caller c: set threshold, unlock; the call is over.
DDefer(c) ==
    /\ dpc[c] \in {"hit", "miss"}
    /\ threshold' = NewThreshold(dpc[c])
    /\ m' = 0
    /\ lastDone' = now
    /\ invDone' = IF dpc[c] = "miss" THEN now ELSE invDone
    /\ dpc' = [dpc EXCEPT ![c] = "idle"]
    /\ UNCHANGED <<now, duration, result, err, dret, lastOutcome, invStart>>
    /\ UNCHANGED <<bvars, rvars, fvars, ovars>>

DTick(maxTime) ==
    /\ now < maxTime
    /\ now' = now + 1
    /\ UNCHANGED <<bvars, dvars, rvars, fvars, ovars>>

\* ------------------------------------------------ Retry
CtxErr == "context canceled"

\* What the effector returns on its k-th invocation of a call; the empty
\* string, and a call that has not returned, in the same form.
Resp(k) == <<"resp", k>>
EmptyResp == <<"", 0>>
RetryNoReturn == [result |-> EmptyResp, err |-> Nil]
ErrOf(k) == IF k <= fails THEN "down" ELSE Nil

\* r >= retries
BudgetSpentNever(k) == FALSE
BudgetSpentLate(k) == k > retries
BudgetSpent(k) == k >= retries

\* return resp, nil
AttemptReturnWithErr(resp, e) == [result |-> resp, err |-> e]
AttemptReturn(resp, e) == [result |-> resp, err |-> Nil]

\* The select takes <-time.After(delay): the timer has fired and ctx.Done()
\* was not closed first.
TimerWinsAlways == timer = 0
TimerWins == timer = 0 /\ ~cancelled

\* retries is an int and may be negative; delay is positive, so that the timer
\* of time.After(delay) has not fired when the select is entered.
RetryInit ==
    /\ retries \in (0 - 1)..MaxRetries
    /\ delay \in 1..MaxDelay
    /\ fails = 0
    /\ rpc = "idle"
    /\ r = 0
    /\ timer = 0
    /\ cancelled = FALSE
    /\ attempts = 0
    /\ rresp = EmptyResp
    /\ rerr = Nil
    /\ rret = RetryNoReturn
    /\ cancelledInWait = FALSE
    /\ attemptsAtCancel = 0

RetryIdle ==
    /\ retries = 0 /\ delay = 0 /\ fails = 0 /\ rpc = "idle" /\ r = 0 /\ timer = 0
    /\ cancelled = FALSE /\ attempts = 0 /\ rresp = EmptyResp /\ rerr = Nil
    /\ rret = RetryNoReturn /\ cancelledInWait = FALSE /\ attemptsAtCancel = 0

\* The retrying function is called, with a context that may be cancelled
\* already and an effector that fails on its first f invocations.
RCall ==
    /\ rpc \in {"idle", "done"}
    /\ \E f \in 0..MaxFails : fails' = f
    /\ \E b \in BOOLEAN : cancelled' = b
    /\ rpc' = "attempting"
    /\ r' = 0
    /\ timer' = 0
    /\ attempts' = 0
    /\ rresp' = EmptyResp
    /\ rerr' = Nil
    /\ rret' = RetryNoReturn
    /\ cancelledInWait' = FALSE
    /\ attemptsAtCancel' = 0
    /\ UNCHANGED <<now, retries, delay>>
    /\ UNCHANGED <<bvars, dvars, fvars, ovars>>

\* The effector returns: the call returns, or starts the delay.
RAttempt ==
    /\ rpc = "attempting"
    /\ attempts' = attempts + 1
    /\ rresp' = Resp(attempts + 1)
    /\ rerr' = ErrOf(attempts + 1)
    /\ IF rerr' = Nil \/ BudgetSpent(r)
       THEN /\ rpc' = "done"
            /\ rret' = AttemptReturn(rresp', rerr')
            /\ UNCHANGED timer
       ELSE /\ rpc' = "waiting"
            /\ timer' = delay
            /\ UNCHANGED rret
    /\ UNCHANGED <<now, retries, delay, fails, r, cancelled, cancelledInWait,
                   attemptsAtCancel>>
    /\ UNCHANGED <<bvars, dvars, fvars, ovars>>

\* A second of the delay passes.
RTick ==
    /\ rpc = "waiting"
    /\ timer > 0
    /\ timer' = timer - 1
    /\ UNCHANGED <<now, retries, delay, fails, rpc, r, cancelled, attempts, rresp,
                   rerr, rret, cancelledInWait, attemptsAtCancel>>
    /\ UNCHANGED <<bvars, dvars, fvars, ovars>>

\* case <-time.After(delay): the next round of the loop.
RDelayElapsed ==
    /\ rpc = "waiting"
    /\ TimerWins
    /\ r' = r + 1
    /\ rpc' = "attempting"
    /\ UNCHANGED <<now, retries, delay, fails, timer, cancelled, attempts, rresp,
                   rerr, rret, cancelledInWait, attemptsAtCancel>>
    /\ UNCHANGED <<bvars, dvars, fvars, ovars>>

\* The caller's context is cancelled during the call.
RCancel ==
    /\ rpc \in {"attempting", "waiting"}
    /\ ~cancelled
    /\ cancelled' = TRUE
    /\ cancelledInWait' = (rpc = "waiting")
    /\ attemptsAtCancel' = attempts
    /\ UNCHANGED <<now, retries, delay, fails, rpc, r, timer, attempts, rresp,
                   rerr, rret>>
    /\ UNCHANGED <<bvars, dvars, fvars, ovars>>

\* case <-ctx.Done(): return "", ctx.Err()
RAbort ==
    /\ rpc = "waiting"
    /\ cancelled
    /\ rpc' = "done"
    /\ rret' = [result |-> EmptyResp, err |-> CtxErr]
    /\ UNCHANGED <<now, retries, delay, fails, r, timer, cancelled, attempts,
                   rresp, rerr, cancelledInWait, attemptsAtCancel>>
    /\ UNCHANGED <<bvars, dvars, fvars, ovars>>

\* ------------------------------------------------ Funnel
Sources == 1..nsources

\* The k-th value sent on source i.
Value(i, k) == <<i, k>>
NoValue == <<0, 0>>

\* wg.Wait() returns.
WaitReturnsEarly == wg <= 1
WaitReturns == wg = 0

\* Funnel has returned dest: wg.Add(len(sources)) is done, one goroutine per
\* source is at its range, the closing goroutine is at wg.Wait(), and the
\* caller ranges over dest.
FunnelInit ==
    /\ nsources \in 0..MaxSources
    /\ srcSent = [i \in Sources |-> 0]
    /\ srcClosed = [i \in Sources |-> FALSE]
    /\ fwdPc = [i \in Sources |-> "recv"]
    /\ fwdN = [i \in Sources |-> NoValue]
    /\ wg = nsources
    /\ closerPc = "wait"
    /\ destClosed = 0
    /\ received = <<>>
    /\ readerPc = "recv"

FunnelIdle ==
    /\ nsources = 0 /\ srcSent = <<>> /\ srcClosed = <<>> /\ fwdPc = <<>> /\ fwdN = <<>>
    /\ wg = 0 /\ closerPc = "done" /\ destClosed = 0 /\ received = <<>>
    /\ readerPc = "done"

\* The sender of source i sends its next value and the goroutine of source i
\* receives it (for n := range c): the channel is unbuffered, so the two meet.
FunnelRecv(i, maxValues) ==
    /\ i \in Sources
    /\ fwdPc[i] = "recv"
    /\ ~srcClosed[i]
    /\ srcSent[i] < maxValues
    /\ srcSent' = [srcSent EXCEPT ![i] = @ + 1]
    /\ fwdN' = [fwdN EXCEPT ![i] = Value(i, srcSent[i] + 1)]
    /\ fwdPc' = [fwdPc EXCEPT ![i] = "send"]
    /\ UNCHANGED <<nsources, srcClosed, wg, closerPc, destClosed, received, readerPc>>
    /\ UNCHANGED <<now, bvars, dvars, rvars, ovars>>

\* The sender of source i closes it.
SourceClose(i) ==
    /\ i \in Sources
    /\ ~srcClosed[i]
    /\ srcClosed' = [srcClosed EXCEPT ![i] = TRUE]
    /\ UNCHANGED <<nsources, srcSent, fwdPc, fwdN, wg, closerPc, destClosed, received,
                   readerPc>>
    /\ UNCHANGED <<now, bvars, dvars, rvars, ovars>>

\* dest <- n meets the reader's receive; on a closed dest the send panics.
FunnelSend(i) ==
    /\ i \in Sources
    /\ fwdPc[i] = "send"
    /\ IF destClosed > 0
       THEN /\ fwdPc' = [fwdPc EXCEPT ![i] = "panicked"]
            /\ UNCHANGED received
       ELSE /\ readerPc = "recv"
            /\ received' = Append(received, fwdN[i])
            /\ fwdPc' = [fwdPc EXCEPT ![i] = "recv"]
    /\ UNCHANGED <<nsources, srcSent, srcClosed, fwdN, wg, closerPc, destClosed, readerPc>>
    /\ UNCHANGED <<now, bvars, dvars, rvars, ovars>>

\* The range over the closed source i ends; the deferred wg.Done() runs.
FunnelDone(i) ==
    /\ i \in Sources
    /\ fwdPc[i] = "recv"
    /\ srcClosed[i]
    /\ fwdPc' = [fwdPc EXCEPT ![i] = "done"]
    /\ wg' = wg - 1
    /\ UNCHANGED <<nsources, srcSent, srcClosed, fwdN, closerPc, destClosed, received,
                   readerPc>>
    /\ UNCHANGED <<now, bvars, dvars, rvars, ovars>>

\* wg.Wait() returns to the closing goroutine, which closes dest.
FunnelClose ==
    /\ closerPc = "wait"
    /\ WaitReturns
    /\ destClosed' = destClosed + 1
    /\ closerPc' = "done"
    /\ UNCHANGED <<nsources, srcSent, srcClosed, fwdPc, fwdN, wg, received, readerPc>>
    /\ UNCHANGED <<now, bvars, dvars, rvars, ovars>>

\* The reader's range over the closed dest ends.
ReaderDone ==
    /\ readerPc = "recv"
    /\ destClosed > 0
    /\ readerPc' = "done"
    /\ UNCHANGED <<nsources, srcSent, srcClosed, fwdPc, fwdN, wg, closerPc, destClosed,
                   received>>
    /\ UNCHANGED <<now, bvars, dvars, rvars, ovars>>

\* ------------------------------------------------ runFanOut and Split
Dests == 1..NumDests
Values == 0..(NumValues - 1)

\* runFanOut has called Split and started the producer: Split's goroutines
\* range over source, nothing has been sent, and runFanOut is about to call
\* wg.Add(len(dests)) and start its readers.
FanOutInit ==
    /\ mainPc = "start"
    /\ outWg = 0
    /\ produced = 0
    /\ sourceClosed = FALSE
    /\ splitPc = [j \in Dests |-> "recv"]
    /\ splitVal = [j \in Dests |-> 0]
    /\ outPc = [j \in Dests |-> "unborn"]
    /\ got = [v \in Values |-> 0]

FanOutIdle ==
    /\ mainPc = "returned" /\ outWg = 0 /\ produced = 0 /\ sourceClosed = FALSE
    /\ splitPc = <<>> /\ splitVal = <<>> /\ outPc = <<>> /\ got = <<>>

\* runFanOut's own steps: wg.Add(len(dests)) and the start of one reader per
\* destination; then wg.Wait(), which returns when the counter is 0.
FanOutMain ==
    /\ IF mainPc = "start"
       THEN /\ outWg' = outWg + NumDests
            /\ outPc' = [j \in Dests |-> "recv"]
            /\ mainPc' = "wait"
       ELSE /\ mainPc = "wait"
            /\ outWg = 0
            /\ mainPc' = "returned"
            /\ UNCHANGED <<outWg, outPc>>
    /\ UNCHANGED <<produced, sourceClosed, splitPc, splitVal, got>>
    /\ UNCHANGED <<now, bvars, dvars, rvars, fvars>>

\* source <- i meets the range of Split's goroutine j.
SplitRecv(j) ==
    /\ splitPc[j] = "recv"
    /\ produced < NumValues
    /\ splitVal' = [splitVal EXCEPT ![j] = produced]
    /\ produced' = produced + 1
    /\ splitPc' = [splitPc EXCEPT ![j] = "send"]
    /\ UNCHANGED <<mainPc, outWg, sourceClosed, outPc, got>>
    /\ UNCHANGED <<now, bvars, dvars, rvars, fvars>>

\* The producer's loop is over: close(source).
ProducerClose ==
    /\ produced = NumValues
    /\ ~sourceClosed
    /\ sourceClosed' = TRUE
    /\ UNCHANGED <<mainPc, outWg, produced, splitPc, splitVal, outPc, got>>
    /\ UNCHANGED <<now, bvars, dvars, rvars, fvars>>

\* ch <- val of Split's goroutine j meets the range of reader j; the
\* iteration, and its val, are over.
SplitSend(j) ==
    /\ splitPc[j] = "send"
    /\ outPc[j] = "recv"
    /\ got' = [got EXCEPT ![splitVal[j]] = @ + 1]
    /\ splitVal' = [splitVal EXCEPT ![j] = 0]
    /\ splitPc' = [splitPc EXCEPT ![j] = "recv"]
    /\ UNCHANGED <<mainPc, outWg, produced, sourceClosed, outPc>>
    /\ UNCHANGED <<now, bvars, dvars, rvars, fvars>>

\* The range of Split's goroutine j over the closed source ends; the deferred
\* close(ch) runs.
SplitClose(j) ==
    /\ splitPc[j] = "recv"
    /\ sourceClosed
    /\ splitPc' = [splitPc EXCEPT ![j] = "closed"]
    /\ UNCHANGED <<mainPc, outWg, produced, sourceClosed, splitVal, outPc, got>>
    /\ UNCHANGED <<now, bvars, dvars, rvars, fvars>>

\* The range of reader j over its closed channel ends, and the goroutine with
\* it: the function has no statement after the loop.
OutDone(j) ==
    /\ outPc[j] = "recv"
    /\ splitPc[j] = "closed"
    /\ outPc' = [outPc EXCEPT ![j] = "done"]
    /\ UNCHANGED <<mainPc, outWg, produced, sourceClosed, splitPc, splitVal, got>>
    /\ UNCHANGED <<now, bvars, dvars, rvars, fvars>>

\* ------------------------------------------------ specifications
BreakerNext ==
    \/ BCall(MaxInFlight, MaxFailures)
    \/ BComplete
    \/ BTick(MaxTime)

BreakerSpecInit == now = 0 /\ BreakerInit /\ DebounceIdle /\ RetryIdle /\ FunnelIdle /\ FanOutIdle
DebounceSpecInit == now = 0 /\ BreakerIdle /\ DebounceInit /\ RetryIdle /\ FunnelIdle /\ FanOutIdle
RetrySpecInit == now = 0 /\ BreakerIdle /\ DebounceIdle /\ RetryInit /\ FunnelIdle /\ FanOutIdle
FunnelSpecInit == now = 0 /\ BreakerIdle /\ DebounceIdle /\ RetryIdle /\ FunnelInit /\ FanOutIdle
FanOutSpecInit ==
    now = 0 /\ BreakerIdle /\ DebounceIdle /\ RetryIdle /\ FunnelIdle /\ FanOutInit

BreakerSpec == BreakerSpecInit /\ [][BreakerNext]_vars

\* Many calls at once, over a short time.
BurstNext ==
    \/ BCall(BurstInFlight, BurstFailures)
    \/ BComplete
    \/ BTick(BurstTime)

BurstSpec == BreakerSpecInit /\ [][BurstNext]_vars

DebounceNext ==
    \/ \E c \in DCallers : DCall(c)
    \/ \E c \in DCallers : DLock(c)
    \/ \E c \in DCallers : DCheck(c)
    \/ \E c \in DCallers : DCircuitReturn(c)
    \/ \E c \in DCallers : DDefer(c)
    \/ DTick(DebounceTime)

DebounceSpec == DebounceSpecInit /\ [][DebounceNext]_vars

RetryNext ==
    \/ RCall
    \/ RAttempt
    \/ RTick
    \/ RDelayElapsed
    \/ RCancel
    \/ RAbort

RetrySpec == RetrySpecInit /\ [][RetryNext]_vars

\* The same calls, with an effector that returns, a timer that runs and fires,
\* and a select that takes a ready case.  Nothing obliges the caller to call
\* again or to cancel.
RetryFairSpec ==
    /\ RetrySpecInit
    /\ [][RetryNext]_vars
    /\ WF_vars(RAttempt)
    /\ WF_vars(RTick)
    /\ WF_vars(RDelayElapsed)
    /\ WF_vars(RAbort)

FunnelNext ==
    \/ \E i \in Sources : FunnelRecv(i, MaxValues)
    \/ \E i \in Sources : SourceClose(i)
    \/ \E i \in Sources : FunnelSend(i)
    \/ \E i \in Sources : FunnelDone(i)
    \/ FunnelClose
    \/ ReaderDone

\* The goroutines Funnel started and the reader of dest are scheduled; nothing
\* obliges a sender to send or to close its source.
FunnelSpec ==
    /\ FunnelSpecInit
    /\ [][FunnelNext]_vars
    /\ \A i \in 1..MaxSources : WF_vars(FunnelSend(i))
    /\ \A i \in 1..MaxSources : WF_vars(FunnelDone(i))
    /\ WF_vars(FunnelClose)
    /\ WF_vars(ReaderDone)

FanOutNext ==
    \/ FanOutMain
    \/ \E j \in Dests : SplitRecv(j)
    \/ ProducerClose
    \/ \E j \in Dests : SplitSend(j)
    \/ \E j \in Dests : SplitClose(j)
    \/ \E j \in Dests : OutDone(j)

FanOutSpec == FanOutSpecInit /\ [][FanOutNext]_vars

\* ------------------------------------------------ Breaker: claims
\* The step is a call running the gate (rejected, or admitted to the operation).
GateStep == ev'.kind \in {"rejected", "invoked"}
\* The step is the bookkeeping of a completed invocation.
CompletionStep == inFlight' = inFlight - 1

\* e seconds are at most 2^k seconds (2^k is beyond every clock value from k = 31 on).
WithinPow2(e, k) == k >= 31 \/ e <= 2 ^ k

\* C1: once the wrapped operation has failed exactly failureThreshold + 1
\* consecutive times, a call that runs the gate before the backoff computed for
\* that state (2^2 seconds after the last failure) has elapsed is rejected with
\* 'service unreachable' and starts no invocation of the wrapped operation.
C1_RejectsAfterThresholdPlusOne ==
    [][ ( /\ GateStep
          /\ streak = failureThreshold + 1
          /\ now - lastAttempt <= 2 ^ (streak - failureThreshold + 1) )
        => ( /\ ev'.kind = "rejected"
             /\ ev'.resp = "" /\ ev'.err = Unreachable
             /\ inFlight' = inFlight ) ]_vars

\* A call is rejected just after failureThreshold + 1 consecutive failures.
C1_Witness ==
    /\ ev.kind = "rejected"
    /\ streak = failureThreshold + 1
    /\ now > lastAttempt

\* C2: a call is rejected exactly when d = consecutiveFailures - failureThreshold
\* is >= 0 and the current time is not after lastAttempt + 2^(d+1) seconds; in
\* every other case the wrapped operation is invoked.
C2_RejectedExactlyWithinBackoff ==
    [][ GateStep =>
          LET d == consecutiveFailures - failureThreshold
          IN  (ev'.kind = "rejected") <=>
                (d >= 0 /\ WithinPow2(now - lastAttempt, d + 1)) ]_vars

\* C3: consecutiveFailures is never negative and counts the failed completions
\* since the last successful one: a successful completion sets it to 0, a failed
\* one adds exactly 1, no other step writes it; so a call is rejected only
\* when failureThreshold failures have completed since the last success.
C3_CounterFollowsCompletions ==
    /\ [](consecutiveFailures >= 0 /\ consecutiveFailures = streak)
    /\ [][ /\ (CompletionStep /\ ev'.err = Nil) => consecutiveFailures' = 0
           /\ (CompletionStep /\ ev'.err # Nil) =>
                  consecutiveFailures' = consecutiveFailures + 1
           /\ ~CompletionStep => consecutiveFailures' = consecutiveFailures
           /\ ev'.kind = "rejected" => streak >= failureThreshold ]_vars

\* A success has just completed after two or more consecutive failures.
C3_Witness ==
    /\ ev.kind = "returned" /\ ev.err = Nil
    /\ ev.was >= 2
    /\ consecutiveFailures = 0

\* C11: a call rejected at the gate leaves consecutiveFailures and lastAttempt
\* as they were and starts no invocation; consecutiveFailures and lastAttempt
\* are written by the bookkeeping of a call that invoked the wrapped operation,
\* and by no other step.
C11_RejectionWritesNothing ==
    [][ /\ ev'.kind = "rejected" =>
              /\ consecutiveFailures' = consecutiveFailures
              /\ lastAttempt' = lastAttempt
              /\ inFlight' = inFlight
        /\ (consecutiveFailures' # consecutiveFailures \/ lastAttempt' # lastAttempt) =>
              /\ CompletionStep
              /\ inFlight > 0
              /\ ev'.kind = "returned" ]_vars

\* A call is rejected, some time after the latest bookkeeping, while another
\* call is still invoking the wrapped operation.
C11_Witness ==
    /\ ev.kind = "rejected"
    /\ inFlight > 0
    /\ now > lastAttempt
    /\ consecutiveFailures > 0

\* C12: the gate and the bookkeeping are not one atomic step.  A call completes
\* while the gate is rejecting (d >= 0 and the backoff since lastAttempt has
\* not elapsed) only if it had passed the gate before the latest bookkeeping,
\* that is, if it was invoking the wrapped operation at the same time as the
\* call that did that bookkeeping; the witness is such an execution, which
\* leaves consecutiveFailures more than one above failureThreshold.
C12_EarlyCompletionWasConcurrent ==
    [][ LET d == consecutiveFailures - failureThreshold
        IN  (CompletionStep /\ d >= 0 /\ ~After(now, lastAttempt, Backoff(d)))
               => (ev'.stale /\ ev'.early) ]_vars

\* Two calls passed the gate together and both failed with no time between:
\* the second failure was counted while the gate was already rejecting.
C12_Witness ==
    /\ ev.kind = "returned" /\ ev.err # Nil
    /\ ev.stale /\ ev.early
    /\ consecutiveFailures > failureThreshold + 1
    /\ inFlight = 0

\* C13: once the current time is after lastAttempt + backoff, the next call
\* invokes the wrapped operation; when a probe has succeeded
\* consecutiveFailures is 0 and the call that follows is admitted without
\* waiting.
C13_RecoversAfterProbe ==
    [][ GateStep =>
          LET d == consecutiveFailures - failureThreshold
          IN  /\ (d >= 0 /\ ~WithinPow2(now - lastAttempt, d + 1)) => ev'.kind = "invoked"
              /\ (ev.kind = "returned" /\ ev.err = Nil) =>
                    (consecutiveFailures = 0 /\ ev'.kind = "invoked") ]_vars

\* C17: with failureThreshold = 0 a call is rejected only if an earlier
\* invocation through the instance has failed; the first call on a fresh
\* Breaker is not rejected.
C17_ZeroThresholdRejectsOnlyAfterFailure ==
    (failureThreshold = 0 /\ ev.kind = "rejected") => failedEver

\* C18: for every reachable d = consecutiveFailures - failureThreshold >= 0 the
\* backoff 2 s << d, as an int64 of nanoseconds, is positive and, for d >= 1,
\* strictly greater than the backoff for d - 1.
C18_BackoffPositiveAndGrowing ==
    LET d == consecutiveFailures - failureThreshold
    IN  d >= 0 =>
          /\ ~IsNeg(Backoff(d))
          /\ Backoff(d) # <<0, 0, 0, 0>>
          /\ d >= 1 => Less(Backoff(d - 1), Backoff(d))

\* ------------------------------------------------ Debounce: claims
\* The step is caller c's comparison of time.Now() with threshold.
CheckStep(c) == dpc[c] = "locked" /\ dpc'[c] # "locked"

\* C4: a call that runs its check strictly before threshold returns the cached
\* (result, error) pair exactly as the last wrapped invocation left it, and does
\* not invoke the wrapped operation.
C4_BeforeThresholdReplaysCache ==
    [][ \A c \in DCallers :
          (CheckStep(c) /\ now < threshold) =>
             /\ dpc'[c] = "hit"
             /\ dret'[c] = [result |-> lastOutcome.resp, err |-> lastOutcome.err]
             /\ <<result', err', lastOutcome'>> = <<result, err, lastOutcome>> ]_vars

\* A call is replaying a cached failure.
C4_Witness ==
    \E c \in DCallers :
        /\ dpc[c] = "hit"
        /\ lastOutcome.err # Nil
        /\ dret[c].err # Nil

\* C5 as claimed: a call that checks within duration of the previous call's
\* completion does not invoke the wrapped operation, and a call that checks
\* after duration has elapsed since the completion of the last invoking call
\* invokes it again, whatever cache hits happened in between.
C5_InvokesAgainAfterInvokingCall ==
    [][ \A c \in DCallers : CheckStep(c) =>
          /\ (lastDone >= 0 /\ now < lastDone + duration) => dpc'[c] = "hit"
          /\ (invDone >= 0 /\ now > invDone + duration) => dpc'[c] = "invoking" ]_vars

\* C5 amended: a call that checks within duration of the completion of the
\* most recent call (invoking or replaying) does not invoke the wrapped
\* operation; every other call invokes it.
C5_InvokesAgainAfterLastCall ==
    [][ \A c \in DCallers : CheckStep(c) =>
          IF lastDone >= 0 /\ now < lastDone + duration
          THEN dpc'[c] = "hit"
          ELSE dpc'[c] = "invoking" ]_vars

\* The wrapped operation is invoked again after cache hits pushed the window.
C5_Witness ==
    \E c \in DCallers :
        /\ dpc[c] = "invoking"
        /\ invDone >= 0
        /\ lastDone > invDone
        /\ now > invDone + duration

\* C9 as claimed: a call on the cached-replay path returns a nil error.
C9_ReplayReturnsNilError ==
    \A c \in DCallers : dpc[c] = "hit" => dret[c].err = Nil

\* C9 amended: a call on the cached-replay path returns the cached result with
\* the cached error: nil exactly when the invocation that filled the cache
\* returned no error.
C9_ReplayReturnsCachedError ==
    \A c \in DCallers :
        dpc[c] = "hit" =>
            /\ dret[c].result = result
            /\ dret[c].err = err
            /\ (dret[c].err = Nil) <=> (lastOutcome.err = Nil)

\* A replayed failure with its partial result.
C9_Witness ==
    \E c \in DCallers :
        /\ dpc[c] = "hit"
        /\ dret[c] = [result |-> "partial", err |-> "down"]

\* C10: a call that invoked the wrapped operation returns exactly the error the
\* wrapped operation returned.
C10_MissReturnsWrappedError ==
    \A c \in DCallers : dpc[c] = "miss" => dret[c].err = lastOutcome.err

\* The callers between m.Lock() and m.Unlock(), and those invoking the wrapped
\* operation.
PastLock == {c \in DCallers : dpc[c] \in {"locked", "invoking", "hit", "miss"}}
Invoking == {c \in DCallers : dpc[c] = "invoking"}

\* C14: under concurrent callers of one Debounce instance at most one call is
\* between its lock and its unlock, and it is the holder of m; so at most one
\* invocation of the wrapped operation is in flight, and every step that reads
\* or writes threshold, result or err (the check, the store of the invocation's
\* outcome, the deferred reset) is taken by that one call while every other
\* caller is outside the lock.
C14_OneCallPastLock ==
    /\ [](/\ Cardinality(PastLock) <= 1
          /\ Cardinality(Invoking) <= 1
          /\ PastLock = (IF m = 0 THEN {} ELSE {m}))
    /\ [][ \A c \in DCallers :
             (dpc[c] \in {"locked", "invoking", "hit", "miss"} /\ dpc'[c] # dpc[c])
                => (m = c /\ PastLock = {c}) ]_vars
    /\ [][ <<threshold', result', err'>> # <<threshold, result, err>>
             => (m # 0 /\ PastLock = {m} /\ dpc'[m] # dpc[m]) ]_vars

\* One caller is invoking the wrapped operation while every other caller is
\* blocked on the lock.
C14_Witness ==
    \E c \in DCallers :
        /\ dpc[c] = "invoking"
        /\ m = c
        /\ \A o \in DCallers \ {c} : dpc[o] = "waiting"

\* The step is the return of caller c's call (its deferred function).
ReturnStep(c) == dpc[c] \in {"hit", "miss"} /\ dpc'[c] = "idle"

\* C16: every return of a call, whether it invoked the wrapped operation or
\* replayed the cache, leaves threshold at the time of that return plus
\* duration, and nothing else writes threshold: the window is counted from the
\* completion of the wrapped invocation and not from its start, and every
\* cache hit pushes it forward again.
C16_ThresholdFollowsCompletion ==
    /\ [][ /\ \A c \in DCallers : ReturnStep(c) => threshold' = now + duration
           /\ threshold' # threshold => \E c \in DCallers : ReturnStep(c) ]_vars
    /\ [](lastDone >= 0 => threshold = lastDone + duration)
    /\ [](\A c \in DCallers :
            (dpc[c] = "locked" /\ lastDone >= 0 /\ now < lastDone + duration)
               => BeforeThreshold(now))

\* The wrapped invocation took longer than duration, and a call made after its
\* completion, later than duration after its start, has replayed the cache and
\* by returning moved threshold beyond the window of the invocation.
C16_Witness ==
    /\ invStart >= 0
    /\ invDone > invStart + duration
    /\ lastDone > invDone
    /\ lastDone < invDone + duration
    /\ threshold = lastDone + duration
    /\ threshold > invDone + duration
    /\ \A c \in DCallers : dpc[c] \in {"idle", "waiting"}

\* ------------------------------------------------ Retry: claims
Min(a, b) == IF a <= b THEN a ELSE b

\* C6: with retries >= 0 and no cancellation, a call whose effector fails on its
\* first `fails` invocations and then succeeds ends after exactly
\* min(fails, retries) + 1 invocations, and returns the result of invocation
\* fails + 1 when that one is within the budget.
C6_AttemptsCount ==
    (rpc = "done" /\ ~cancelled /\ retries >= 0) =>
        /\ attempts = Min(fails, retries) + 1
        /\ fails <= retries => rret = [result |-> Resp(fails + 1), err |-> Nil]

\* Two failures, then success on the third attempt of a call with retries = 3.
C6_Witness ==
    /\ rpc = "done" /\ ~cancelled
    /\ retries = 3 /\ fails = 2
    /\ attempts = 3
    /\ rret = [result |-> Resp(3), err |-> Nil]

\* C7: once the context is cancelled during an inter-attempt delay, the call
\* makes no further invocation, and when it has returned it has returned ""
\* with the context's error.
C7_CancelInDelayAborts ==
    cancelledInWait =>
        /\ attempts = attemptsAtCancel
        /\ rpc \in {"waiting", "done"}
        /\ rpc = "done" => rret = [result |-> EmptyResp, err |-> CtxErr]

\* A call has returned after a cancellation during its delay, with budget left.
C7_Witness ==
    /\ cancelledInWait
    /\ rpc = "done"
    /\ r < retries
    /\ timer = 0

\* The call gave up: its last attempt failed with r >= retries.
Exhausted == rpc = "done" /\ rerr # Nil /\ r >= retries

\* C8: a call that exhausts its budget returns the failing attempt's result
\* with a nil error, and a returned error is never anything but the
\* context's.
C8_ExhaustedReturnsNil ==
    /\ Exhausted => rret = [result |-> rresp, err |-> Nil]
    /\ rpc = "done" => rret.err \in {Nil, CtxErr}
    /\ (rpc = "done" /\ rret.err # Nil) => cancelled

\* A call with retries = 3 has given up after its fourth failure.
C8_Witness ==
    /\ Exhausted
    /\ retries = 3
    /\ attempts = 4
    /\ rret = [result |-> Resp(4), err |-> Nil]

Max(a, b) == IF a >= b THEN a ELSE b

\* C15: every call of the retrying function returns, for every retries
\* (0 and negative included) and every effector that returns.  The call moves
\* only from attempting to done (success, or r >= retries), from attempting to
\* waiting (failure with budget left), from waiting to attempting (the delay
\* has elapsed) and from waiting to done (cancelled), and it invokes the
\* effector at most max(retries, 0) + 1 times.
C15_CallTerminates ==
    /\ [](attempts <= Max(retries, 0) + 1)
    /\ [][ /\ (rpc = "attempting" /\ rpc' # rpc) =>
                  /\ attempts' = attempts + 1
                  /\ IF rerr' = Nil \/ r >= retries
                     THEN rpc' = "done"
                     ELSE rpc' = "waiting"
           /\ (rpc = "waiting" /\ rpc' # rpc) =>
                  /\ attempts' = attempts
                  /\ \/ rpc' = "attempting" /\ timer = 0 /\ r' = r + 1
                     \/ rpc' = "done" /\ cancelled
           /\ (rpc \in {"idle", "done"} /\ rpc' # rpc) =>
                  (rpc' = "attempting" /\ attempts' = 0 /\ r' = 0)
           /\ attempts' # attempts =>
                  (rpc \in {"idle", "done"} \/ rpc = "attempting") ]_vars
    /\ (rpc \in {"attempting", "waiting"}) ~> (rpc = "done")

\* A call with retries = -1 has returned after its one, failed, attempt.
C15_Witness ==
    /\ rpc = "done"
    /\ retries = 0 - 1
    /\ attempts = 1
    /\ rerr # Nil
    /\ ~cancelled

\* ------------------------------------------------ Funnel: claims
\* How many times v has been received from dest, and whether the goroutine of
\* source i is holding v for its send.
Occurrences(v) == Cardinality({j \in 1..Len(received) : received[j] = v})
Holding(i, v) == IF fwdPc[i] = "send" /\ fwdN[i] = v THEN 1 ELSE 0

\* C19: for any number of sources and any interleaving, every value received
\* from a source is sent on dest exactly once (it is held for its send, or has
\* been received from dest once, and nothing else is received from dest); no
\* send on dest happens after dest is closed; dest is closed at most once, and
\* only when every source is closed and all its values have been forwarded;
\* and once all sources are closed, dest is closed.
C19_FunnelForwardsOnceThenCloses ==
    /\ [](\A i \in Sources : \A k \in 1..srcSent[i] :
            Occurrences(Value(i, k)) + Holding(i, Value(i, k)) = 1)
    /\ [](\A j \in 1..Len(received) :
            \E i \in Sources : \E k \in 1..srcSent[i] : received[j] = Value(i, k))
    /\ [](\A i \in Sources : fwdPc[i] # "panicked")
    /\ [][destClosed > 0 => received' = received]_vars
    /\ [](destClosed <= 1)
    /\ [](destClosed > 0 =>
            \A i \in Sources :
                /\ srcClosed[i]
                /\ fwdPc[i] = "done"
                /\ \A k \in 1..srcSent[i] : Occurrences(Value(i, k)) = 1)
    /\ [](readerPc = "done" => destClosed = 1)
    /\ (\A i \in Sources : srcClosed[i]) ~> (destClosed = 1)

\* Two sources, two values each, received interleaved, and dest closed after
\* the last of them.
C19_Witness ==
    /\ nsources = 2
    /\ destClosed = 1
    /\ readerPc = "done"
    /\ Len(received) = 4
    /\ received[1] = Value(2, 1)
    /\ received[2] = Value(1, 1)

\* ------------------------------------------------ runFanOut: claims
\* C20: runFanOut terminates: a run that can take no further step is one in
\* which the producer has sent its 10 values and closed source, each value was
\* received by exactly one reader, every destination channel is closed, and
\* wg.Wait() has returned.
C20_FanOutTerminates ==
    \/ ENABLED FanOutNext
    \/ /\ produced = NumValues /\ sourceClosed
       /\ \A v \in Values : got[v] = 1
       /\ \A j \in Dests : splitPc[j] = "closed"
       /\ mainPc = "returned"

====
